---------------------------- MODULE Spec2Model ----------------------------
(***************************************************************************)
(* Model of the all-repositories pull-request daily snapshot               *)
(* (pr_all_repos_daily_snapshot.py, main and its gateway helpers).         *)
(*                                                                         *)
(* One run of main() is a state machine: pc is the position in main, the   *)
(* other variables are main's locals.  Every call of the GitHub gateway    *)
(* (get_all_repos, get_prs, get_reviews) is a point where the outcome is   *)
(* chosen among the answers the remote side can give: a listing, a 404 or  *)
(* an error status that raise_for_status() turns into an exception.        *)
(***************************************************************************)
EXTENDS Integers, Sequences, FiniteSets, Bags, TLC

\* Number of repositories the account owns.
NumRepos == 2

Repos == 1..NumRepos

\* Python's None where an ISO string is expected, and where a datetime is.
None == <<>>
NoneDt == [s |-> -1, us |-> 0]

Logins == {"alice", "bob"}

-----------------------------------------------------------------------------
(* Time.  An ISO string "YYYY-MM-DDTHH:MM:SSZ" is the tuple <<Y,M,D,h,m,s>>  *)
(* of its fields; a datetime is [s |-> seconds since 1970-01-01T00:00:00Z,   *)
(* us |-> microseconds]; a timedelta has the same two fields.                *)

\* Days from 1970-01-01 to the proleptic Gregorian date y-m-d.
DaysFromCivil(y, m, d) ==
    LET yy  == IF m <= 2 THEN y - 1 ELSE y
        era == yy \div 400
        yoe == yy - era * 400
        mp  == IF m > 2 THEN m - 3 ELSE m + 9
        doy == (153 * mp + 2) \div 5 + d - 1
        doe == yoe * 365 + yoe \div 4 - yoe \div 100 + doy
    IN  era * 146097 + doe - 719468

\* datetime.strptime(iso_str, "%Y-%m-%dT%H:%M:%SZ").replace(tzinfo=utc)
iso_to_dt(iso_str) ==
    [s  |-> DaysFromCivil(iso_str[1], iso_str[2], iso_str[3]) * 86400
            + iso_str[4] * 3600 + iso_str[5] * 60 + iso_str[6],
     us |-> 0]

\* datetime.now(timezone.utc): the wall clock has microsecond resolution.
NowDt(n) == [s |-> iso_to_dt(n.iso).s, us |-> n.us]

\* datetime(now.year, now.month, now.day, tzinfo=timezone.utc)
TodayStart(n) == iso_to_dt(<<n.iso[1], n.iso[2], n.iso[3], 0, 0, 0>>)

\* a >= b and a < b on datetimes
DtGE(a, b) == a.s > b.s \/ (a.s = b.s /\ a.us >= b.us)
DtLT(a, b) == ~DtGE(a, b)

\* a - b on datetimes: a normalised timedelta
DtSub(a, b) ==
    IF a.us >= b.us THEN [s |-> a.s - b.s, us |-> a.us - b.us]
                    ELSE [s |-> a.s - b.s - 1, us |-> 1000000 + a.us - b.us]

\* timedelta(days=d, hours=h)
timedelta(d, h) == [s |-> d * 86400 + h * 3600, us |-> 0]

\* td1 > td2 on timedeltas
TdGT(td1, td2) == td1.s > td2.s \/ (td1.s = td2.s /\ td1.us > td2.us)

\* timedelta.days
TdDays(td) == td.s \div 86400

\* The age thresholds of main: 24 hours, 2 days, 7 days.
PendingHours == 24
StuckDays == 2
StaleDays == 7

\* str.lower() on the label names and review states that occur.
Lower(str) ==
    CASE str = "APPROVED"          -> "approved"
      [] str = "CHANGES_REQUESTED" -> "changes_requested"
      [] str = "COMMENTED"         -> "commented"
      [] str = "Hotfix"            -> "hotfix"
      [] str = "CRITICAL"          -> "critical"
      [] str = "Pending-Release"   -> "pending-release"
      [] OTHER                     -> str

\* The order of str.__lt__ on the logins that occur.
LoginRank(login) == CASE login = "alice" -> 1 [] login = "bob" -> 2 [] OTHER -> 3

-----------------------------------------------------------------------------
(* Sequences helpers (Python list operations).                              *)

Range(s) == {s[i] : i \in DOMAIN s}


RECURSIVE SumSeq(_)
SumSeq(s) == IF s = <<>> THEN 0 ELSE Head(s) + SumSeq(Tail(s))

\* x in list
InSeq(x, s) == \E i \in DOMAIN s : s[i] = x

-----------------------------------------------------------------------------
(* What the remote side holds.  A pull request is the record of the JSON     *)
(* fields main reads; get_reviews answers with the reviews of a pull request *)
(* number, in submission order.                                              *)

PR(n, login, created, merged, labels) ==
    [number |-> n, user |-> login, created_at |-> created,
     merged_at |-> merged, labels |-> labels]

Review(login, state) == [user |-> login, state |-> state]

\* open pull requests
PR1 == PR(1, "alice", <<2024, 1, 10, 0, 0, 0>>, None, <<"Hotfix">>)
PR2 == PR(2, "bob", <<2024, 1, 8, 9, 0, 0>>, None, <<>>)
PR3 == PR(3, "alice", <<2024, 1, 1, 10, 0, 0>>, None, <<"docs", "Pending-Release">>)
PR4 == PR(4, "bob", <<2024, 1, 9, 9, 0, 0>>, None, <<"CRITICAL">>)
PR8 == PR(8, "bob", <<2024, 1, 3, 9, 0, 0>>, None, <<>>)
\* closed pull requests
PR5 == PR(5, "alice", <<2024, 1, 10, 8, 0, 0>>, <<2024, 1, 10, 8, 30, 0>>, <<>>)
PR6 == PR(6, "bob", <<2024, 1, 9, 23, 59, 59>>, <<2024, 1, 10, 0, 0, 0>>, <<>>)
PR7 == PR(7, "bob", <<2024, 1, 10, 0, 0, 0>>, None, <<"hotfix">>)
PR9 == PR(9, "alice", <<2024, 1, 5, 12, 0, 0>>, <<2024, 1, 9, 23, 59, 59>>, <<>>)
\* pull request 1 as the closed listing shows it once it has been closed
PR1closed == PR(1, "alice", <<2024, 1, 10, 0, 0, 0>>, None, <<"Hotfix">>)

PRNumbers == {1, 2, 3, 4, 5, 6, 7, 8, 9}

ReviewsOf(n) ==
    CASE n = 2 -> <<Review("alice", "CHANGES_REQUESTED"), Review("alice", "APPROVED")>>
      [] n = 3 -> <<Review("bob", "APPROVED"), Review("bob", "CHANGES_REQUESTED")>>
      [] n = 5 -> <<Review("bob", "APPROVED")>>
      [] n = 6 -> <<Review("alice", "COMMENTED"), Review("bob", "APPROVED")>>
      [] n = 8 -> <<Review("alice", "CHANGES_REQUESTED")>>
      [] n = 9 -> <<Review("bob", "APPROVED")>>
      [] OTHER -> <<>>

\* The instants at which a run starts.
Nows == {[iso |-> <<2024, 1, 10, 9, 0, 0>>, us |-> 0],
         [iso |-> <<2024, 1, 10, 9, 0, 0>>, us |-> 1]}

(* A gateway answer to one paginated listing is the sequence of the page     *)
(* answers, each a page of records (status 200), a 404, or any other status  *)
(* (raise_for_status() raises on it).  The listing ends with an empty page.  *)
Page(data) == [status |-> "ok", data |-> data]
NotFound == [status |-> "notfound", data |-> <<>>]
Error == [status |-> "error", data |-> <<>>]

OpenAnswers ==
    {<<Error>>,
     <<NotFound>>,
     <<Page(<<PR1, PR4>>), Page(<<>>)>>,
     <<Page(<<PR3>>), Page(<<PR2, PR8>>), Page(<<>>)>>,
     <<Page(<<PR1, PR4>>), Error>>,
     <<Page(<<PR8>>), NotFound>>}

ClosedAnswers ==
    {<<Error>>,
     <<Page(<<PR5>>), Error>>,
     <<Page(<<PR5>>), Page(<<PR6, PR7>>), Page(<<>>)>>,
     <<Page(<<PR9, PR1closed>>), Page(<<>>)>>}

\* get_all_repos: every order of the account's repositories, or none.
RECURSIVE Perms(_)
Perms(S) ==
    IF S = {} THEN {<<>>}
    ELSE UNION {{<<x>> \o p : p \in Perms(S \ {x})} : x \in S}

RepoAnswers == {Page(p) : p \in Perms(Repos)} \cup {Page(<<>>), Error}

\* The pull requests whose reviews endpoint may answer 404.
NotFoundPRs == {1, 4, 7}

\* get_reviews: the answers to one call for pull request pr_number
ReviewAnswers(pr_number) ==
    {Error, Page(ReviewsOf(pr_number))}
    \cup (IF pr_number \in NotFoundPRs THEN {NotFound} ELSE {})

-----------------------------------------------------------------------------
(* The gateway helpers.  Each returns what the Python function returns, and  *)
(* raised = TRUE when it raises instead.                                     *)

RECURSIVE GetPrsLoop(_, _, _)
\* the while loop of get_prs: page is the page requested next, prs the
\* records gathered so far
GetPrsLoop(answer, page, prs) ==
    IF answer[page].status = "notfound" THEN [raised |-> FALSE, prs |-> <<>>]
    ELSE IF answer[page].status = "error" THEN [raised |-> TRUE, prs |-> <<>>]
    ELSE IF answer[page].data = <<>> THEN [raised |-> FALSE, prs |-> prs]
    ELSE GetPrsLoop(answer, page + 1, prs \o answer[page].data)

get_prs(answer) == GetPrsLoop(answer, 1, <<>>)

get_reviews(answer) ==
    IF answer.status = "notfound" THEN [raised |-> FALSE, reviews |-> <<>>]
    ELSE IF answer.status = "error" THEN [raised |-> TRUE, reviews |-> <<>>]
    ELSE [raised |-> FALSE, reviews |-> answer.data]

\* get_all_repos (one page of repositories, then the empty page)
get_all_repos(answer) ==
    IF answer.status = "ok" THEN [raised |-> FALSE, repos |-> answer.data]
    ELSE [raised |-> TRUE, repos |-> <<>>]


-----------------------------------------------------------------------------
(* The per-pull-request tests of main.                                       *)

\* IsRaisedToday with ">" for ">="
IsRaisedTodayStrict(pr, start) ==
    LET created == iso_to_dt(pr.created_at) IN DtGE(created, start) /\ created # start

\* pr["created_at"] >= today_start, after parsing
IsRaisedToday(pr, start) == DtGE(iso_to_dt(pr.created_at), start)

\* IsMergedToday with ">" for ">="
IsMergedTodayStrict(pr, start) ==
    /\ pr.merged_at # None
    /\ DtGE(iso_to_dt(pr.merged_at), start)
    /\ iso_to_dt(pr.merged_at) # start

\* pr.get("merged_at") and iso_to_dt(pr["merged_at"]) >= today_start
IsMergedToday(pr, start) ==
    pr.merged_at # None /\ DtGE(iso_to_dt(pr.merged_at), start)

\* states = [r["state"].lower() for r in reviews]
StatesOf(reviews) == [i \in DOMAIN reviews |-> Lower(reviews[i].state)]

\* "changes_requested" in states
HasChangesRequested(reviews) == InSeq("changes_requested", StatesOf(reviews))

\* "approved" not in states
IsNotApproved(reviews) == ~InSeq("approved", StatesOf(reviews))

\* any(lbl['name'].lower() in ['hotfix', 'critical'] for lbl in labels)
IsHotfix(pr) == \E i \in DOMAIN pr.labels : Lower(pr.labels[i]) \in {"hotfix", "critical"}

\* any(lbl['name'].lower() == 'pending-release' for lbl in labels)
IsPendingRelease(pr) == \E i \in DOMAIN pr.labels : Lower(pr.labels[i]) = "pending-release"

\* now - created_at
Age(n, pr) == DtSub(NowDt(n), iso_to_dt(pr.created_at))

\* IsPendingReview without the test for no reviews
IsPendingReviewAnyReviews(n, pr, reviews) ==
    TdGT(Age(n, pr), timedelta(0, PendingHours))

\* (now - created_at) > timedelta(hours=24) and len(reviews) == 0
IsPendingReview(n, pr, reviews) ==
    TdGT(Age(n, pr), timedelta(0, PendingHours)) /\ Len(reviews) = 0

\* (now - created_at) > timedelta(days=2)
IsStuck(n, pr) == TdGT(Age(n, pr), timedelta(StuckDays, 0))

\* (now - created_at) > timedelta(days=7)
IsStale(n, pr) == TdGT(Age(n, pr), timedelta(StaleDays, 0))

\* is_changes_requested of the single-repository report
RECURSIVE is_changes_requested(_)
is_changes_requested(reviews) ==
    IF reviews = <<>> THEN FALSE
    ELSE IF Lower(reviews[Len(reviews)].state) = "changes_requested" THEN TRUE
    ELSE is_changes_requested(SubSeq(reviews, 1, Len(reviews) - 1))

\* a < b on ISO strings: character order, which on the fixed-width fields is
\* the order of the field tuples
RECURSIVE IsoLT(_, _)
IsoLT(a, b) ==
    IF a = <<>> \/ b = <<>> THEN a = <<>> /\ b # <<>>
    ELSE IF Head(a) # Head(b) THEN Head(a) < Head(b)
    ELSE IsoLT(Tail(a), Tail(b))

\* MinByCreated taking the last element of the listing
MinByCreatedLast(prs) == prs[Len(prs)]

RECURSIVE MinByCreated(_)
\* min(prs, key=lambda pr: pr["created_at"]): the first of the least elements
MinByCreated(prs) ==
    IF Len(prs) = 1 THEN prs[1]
    ELSE LET m == MinByCreated(SubSeq(prs, 1, Len(prs) - 1))
             l == prs[Len(prs)]
         IN  IF IsoLT(l.created_at, m.created_at) THEN l ELSE m

\* (merged - created).total_seconds(); the pooled value is this over 3600
CycleSeconds(pr) == DtSub(iso_to_dt(pr.merged_at), iso_to_dt(pr.created_at)).s

-----------------------------------------------------------------------------
(* The members dictionary of one repository: a defaultdict, kept as the     *)
(* sequence of its entries in insertion order.                               *)

NewMember(login) ==
    [Member |-> login, raised |-> 0, merged |-> 0, changes_requested |-> 0,
     not_approved |-> 0, reviews_done |-> 0]

MemberIndex(ms, login) ==
    IF \E i \in DOMAIN ms : ms[i].Member = login
    THEN CHOOSE i \in DOMAIN ms : ms[i].Member = login
    ELSE 0

\* Bump with "= 1" for "+= 1"
BumpAssign(ms, login, field) ==
    LET i == MemberIndex(ms, login) IN
    IF i = 0 THEN Append(ms, [NewMember(login) EXCEPT ![field] = 1])
    ELSE [ms EXCEPT ![i][field] = 1]

\* members[login][field] += 1
Bump(ms, login, field) ==
    LET i == MemberIndex(ms, login) IN
    IF i = 0 THEN Append(ms, [NewMember(login) EXCEPT ![field] = 1])
    ELSE [ms EXCEPT ![i][field] = @ + 1]

\* members[login]["reviews_done"] = count
SetReviewsDone(ms, login, count) ==
    LET i == MemberIndex(ms, login) IN
    IF i = 0 THEN Append(ms, [NewMember(login) EXCEPT !.reviews_done = count])
    ELSE [ms EXCEPT ![i].reviews_done = count]

RECURSIVE BumpAll(_, _, _)
\* for pr in prs: members[pr["user"]["login"]][field] += 1
BumpAll(ms, prs, field) ==
    IF prs = <<>> THEN ms
    ELSE BumpAll(Bump(ms, Head(prs).user, field), Tail(prs), field)

\* reviews_done_map[reviewer] += 1 (entries in insertion order)
CountReview(map, reviewer) ==
    IF \E i \in DOMAIN map : map[i].user = reviewer
    THEN [i \in DOMAIN map |->
            IF map[i].user = reviewer THEN [map[i] EXCEPT !.count = @ + 1] ELSE map[i]]
    ELSE Append(map, [user |-> reviewer, count |-> 1])

RECURSIVE CountReviews(_, _)
\* for r in reviews: reviews_done_map[r["user"]["login"]] += 1
CountReviews(map, reviews) ==
    IF reviews = <<>> THEN map
    ELSE CountReviews(CountReview(map, Head(reviews).user), Tail(reviews))

RECURSIVE ApplyReviewsDone(_, _)
\* for user, count_r in reviews_done_map.items(): members[user]["reviews_done"] = count_r
ApplyReviewsDone(ms, map) ==
    IF map = <<>> THEN ms
    ELSE ApplyReviewsDone(SetReviewsDone(ms, Head(map).user, Head(map).count), Tail(map))

\* the row main appends for one members entry
Row(m, repo_name) ==
    [Member |-> m.Member, PRsRaised |-> m.raised, PRsMerged |-> m.merged,
     ChangesRequested |-> m.changes_requested, NotApproved |-> m.not_approved,
     ReviewsDone |-> m.reviews_done, RepoName |-> repo_name]

\* pr_ids_to_check = [pr["number"] for pr in prs_raised_today + prs_merged_today]
PrIdsToCheck(raised, merged) ==
    LET both == raised \o merged IN [i \in DOMAIN both |-> both[i].number]


-----------------------------------------------------------------------------
(* The state of one run of main.                                             *)

VARIABLES
    pc,                 \* position in main
    now,                \* the wall-clock reading of line 62
    today_start,
    repos,              \* the list get_all_repos returned
    idx,                \* index of the for loops over repos
    k,                  \* index of the inner for loops
    open_prs, closed_prs,
    prs_raised_today, prs_merged_today,
    prs_with_changes_requested, prs_not_approved, prs_hotfix, prs_pending_review,
    totals,             \* total_raised ... pending_release
    oldest_open_date, oldest_open_days,
    review_cycle_times,
    members, pr_ids_to_check, reviews_done_map,
    member_rows,
    stale_pr_owners, owners_stale_prs, most_active, review_heavy,
    hist,               \* history: what the gateway answered for each repository
    open_reviews        \* history: the reviews got for open_prs[1..k-1]

(* The state of one call of get_prs and of one call of                       *)
(* send_to_google_chat_via_webhook, when the call is followed line by line.  *)
VARIABLES
    listing,            \* what the source answers to page 1, 2, ... of get_prs
    page, prs,          \* the locals of get_prs
    requests_made,      \* history: the page numbers get_prs has requested
    returned,           \* the value get_prs returned
    webhook_url,        \* os.environ.get("GOOGLE_CHAT_WEBHOOK"), "" when unset
    report_text,        \* the argument of send_to_google_chat_via_webhook
    payload,            \* the payload handed to requests.post
    resp,               \* the response of requests.post
    printed             \* the lines printed

getPrsVars == <<listing, page, prs, requests_made, returned>>
sendVars == <<webhook_url, report_text, payload, resp, printed>>
callVars == <<getPrsVars, sendVars>>

runVars == <<now, today_start, repos>>
repoVars == <<open_prs, closed_prs, prs_raised_today, prs_merged_today>>
classVars == <<prs_with_changes_requested, prs_not_approved, prs_hotfix,
               prs_pending_review, open_reviews>>
accVars == <<totals, oldest_open_date, review_cycle_times, member_rows>>
memberVars == <<members, pr_ids_to_check, reviews_done_map>>
outVars == <<oldest_open_days, stale_pr_owners, owners_stale_prs, most_active,
             review_heavy>>

mainVars == <<idx, k, runVars, repoVars, classVars, accVars, memberVars, outVars,
             hist>>

vars == <<pc, mainVars, callVars>>

ZeroTotals ==
    [total_raised |-> 0, total_merged |-> 0, total_changes_requested |-> 0,
     total_not_approved |-> 0, total_hotfix |-> 0, total_pending_24h |-> 0,
     pr_stuck |-> 0, pending_release |-> 0]

\* the history of a repository: the results of its two get_prs calls (a call
\* not made counts as returning nothing) and the reviews got for its open
\* pull requests
NotCalled == [raised |-> FALSE, prs |-> <<>>]
NoHistory == [open |-> NotCalled, closed |-> NotCalled, reviews |-> <<>>]

\* no payload built, no response received
NoPayload == [built |-> FALSE, text |-> <<>>]
NoResponse == [status_code |-> 0]

\* no call of get_prs is being followed
NoGetPrs ==
    /\ listing = <<>> /\ page = 1 /\ prs = <<>>
    /\ requests_made = <<>> /\ returned = <<>>

\* no call of send_to_google_chat_via_webhook is being followed
NoSend ==
    /\ webhook_url = "" /\ report_text = <<>>
    /\ payload = NoPayload /\ resp = NoResponse /\ printed = <<>>

NoCall == NoGetPrs /\ NoSend

\* the locals of main before its first statement
MainLocals ==
    /\ repos = <<>>
    /\ idx = 1
    /\ k = 1
    /\ open_prs = <<>> /\ closed_prs = <<>>
    /\ prs_raised_today = <<>> /\ prs_merged_today = <<>>
    /\ prs_with_changes_requested = <<>> /\ prs_not_approved = <<>>
    /\ prs_hotfix = <<>> /\ prs_pending_review = <<>>
    /\ totals = ZeroTotals
    /\ oldest_open_date = NoneDt /\ oldest_open_days = 0
    /\ review_cycle_times = <<>>
    /\ members = <<>> /\ pr_ids_to_check = <<>> /\ reviews_done_map = <<>>
    /\ member_rows = <<>>
    /\ stale_pr_owners = {} /\ owners_stale_prs = <<>>
    /\ most_active = "" /\ review_heavy = ""
    /\ hist = [r \in Repos |-> NoHistory]
    /\ open_reviews = <<>>

Init ==
    /\ pc = "get_all_repos"
    /\ now \in Nows
    /\ today_start = TodayStart(now)
    /\ MainLocals
    /\ NoCall

\* lines 65-68: repos = get_all_repos(); an exception leaves main, an empty
\* list returns
GetAllRepos ==
    /\ pc = "get_all_repos"
    /\ \E answer \in RepoAnswers :
         LET g == get_all_repos(answer) IN
         /\ repos' = g.repos
         /\ pc' = IF g.raised THEN "raised"
                  ELSE IF g.repos = <<>> THEN "no_repos" ELSE "for_repo"
    /\ UNCHANGED callVars
    /\ UNCHANGED <<idx, k, now, today_start, repoVars, classVars, accVars,
                   memberVars, outVars, hist>>

\* TryGetPrs with the closed listing fetched outside the try block's skip
TryGetPrsOpenOnly(open_answer, closed_answer) ==
    LET o == get_prs(open_answer)
        c == get_prs(closed_answer)
    IN  IF o.raised
        THEN [status |-> "skipped", open_prs |-> <<>>, closed_prs |-> <<>>]
        ELSE [status |-> "ok", open_prs |-> o.prs, closed_prs |-> c.prs]

\* the try block of lines 91-96
TryGetPrs(open_answer, closed_answer) ==
    LET o == get_prs(open_answer)
        c == get_prs(closed_answer)
    IN  IF o.raised \/ c.raised
        THEN [status |-> "skipped", open_prs |-> <<>>, closed_prs |-> <<>>]
        ELSE [status |-> "ok", open_prs |-> o.prs, closed_prs |-> c.prs]

\* prs_raised_today of line 98
RaisedToday(opens, closeds, start) ==
    SelectSeq(opens \o closeds, LAMBDA pr : IsRaisedToday(pr, start))

\* prs_merged_today of line 99
MergedToday(closeds, start) ==
    SelectSeq(closeds, LAMBDA pr : IsMergedToday(pr, start))

\* where the for loop over repos goes after repository idx
AfterRepo == IF idx = Len(repos) THEN "after_repos" ELSE "for_repo"

\* lines 88-107: one repository's listings, the today sets and their totals
FetchPRs ==
    /\ pc = "for_repo"
    /\ \E open_answer \in OpenAnswers, closed_answer \in ClosedAnswers :
         LET got == TryGetPrs(open_answer, closed_answer)
             raised == RaisedToday(got.open_prs, got.closed_prs, today_start)
             merged == MergedToday(got.closed_prs, today_start)
             o == get_prs(open_answer)
             c == IF o.raised THEN NotCalled ELSE get_prs(closed_answer)
         IN  /\ hist' = [hist EXCEPT ![repos[idx]] = [NoHistory EXCEPT !.open = o, !.closed = c]]
             /\ IF got.status = "skipped"
                THEN /\ pc' = AfterRepo
                     /\ idx' = idx + 1
                     /\ UNCHANGED <<repoVars, totals>>
                ELSE /\ pc' = "classify"
                     /\ idx' = idx
                     /\ open_prs' = got.open_prs
                     /\ closed_prs' = got.closed_prs
                     /\ prs_raised_today' = raised
                     /\ prs_merged_today' = merged
                     /\ totals' = [totals EXCEPT
                                     !.total_raised = @ + Len(raised),
                                     !.total_merged = @ + Len(merged)]
    /\ k' = 1
    /\ UNCHANGED callVars
    /\ UNCHANGED <<runVars, classVars, oldest_open_date, review_cycle_times,
                   member_rows, memberVars, outVars>>

\* lines 109-129: one iteration of the loop over open_prs
ClassifyOpenPR ==
    /\ pc = "classify"
    /\ k <= Len(open_prs)
    /\ LET pr == open_prs[k] IN
       \E answer \in ReviewAnswers(pr.number) :
         LET g == get_reviews(answer)
             reviews == g.reviews
         IN  IF g.raised
             THEN /\ pc' = "raised"
                  /\ UNCHANGED <<k, classVars, totals>>
             ELSE /\ pc' = pc
                  /\ k' = k + 1
                  /\ open_reviews' = Append(open_reviews, reviews)
                  /\ prs_with_changes_requested' =
                        IF HasChangesRequested(reviews)
                        THEN Append(prs_with_changes_requested, pr)
                        ELSE prs_with_changes_requested
                  /\ prs_not_approved' =
                        IF IsNotApproved(reviews)
                        THEN Append(prs_not_approved, pr) ELSE prs_not_approved
                  /\ prs_hotfix' =
                        IF IsHotfix(pr) THEN Append(prs_hotfix, pr) ELSE prs_hotfix
                  /\ prs_pending_review' =
                        IF IsPendingReview(now, pr, reviews)
                        THEN Append(prs_pending_review, pr) ELSE prs_pending_review
                  /\ totals' = [totals EXCEPT
                        !.pr_stuck = IF IsStuck(now, pr) THEN @ + 1 ELSE @,
                        !.pending_release = IF IsPendingRelease(pr) THEN @ + 1 ELSE @]
    /\ UNCHANGED callVars
    /\ UNCHANGED <<idx, runVars, repoVars, oldest_open_date, review_cycle_times,
                   member_rows, memberVars, outVars, hist>>

\* OldestAfter without the comparison against the date held so far
OldestAfterLast(oldest, opens) ==
    IF opens = <<>> THEN oldest
    ELSE iso_to_dt(MinByCreated(opens).created_at)

\* lines 136-141: the oldest open date after this repository
OldestAfter(oldest, opens) ==
    IF opens = <<>> THEN oldest
    ELSE LET repo_oldest_date == iso_to_dt(MinByCreated(opens).created_at) IN
         IF oldest = NoneDt \/ DtLT(repo_oldest_date, oldest)
         THEN repo_oldest_date ELSE oldest

RECURSIVE OldestPerPR(_, _)
\* send_pr_report.py, lines 178-187: the same date, tracked per open pull
\* request inside the classification loop
OldestPerPR(oldest, opens) ==
    IF opens = <<>> THEN oldest
    ELSE LET created_at == iso_to_dt(Head(opens).created_at) IN
         OldestPerPR(IF oldest = NoneDt \/ DtLT(created_at, oldest)
                     THEN created_at ELSE oldest,
                     Tail(opens))

\* lines 144-147: review_cycle_times after this repository
CycleTimesAfter(times, merged) ==
    times \o [i \in DOMAIN merged |-> CycleSeconds(merged[i])]

\* lines 150-160: the members counters of the four pull-request lists
MembersOf(raised, merged, changes, unapproved) ==
    BumpAll(BumpAll(BumpAll(BumpAll(<<>>, raised, "raised"), merged, "merged"),
                    changes, "changes_requested"), unapproved, "not_approved")

\* lines 131-164: after the loop over open_prs
AfterClassify ==
    /\ pc = "classify"
    /\ k > Len(open_prs)
    /\ totals' = [totals EXCEPT
          !.total_changes_requested = @ + Len(prs_with_changes_requested),
          !.total_not_approved = @ + Len(prs_not_approved),
          !.total_hotfix = @ + Len(prs_hotfix),
          !.total_pending_24h = @ + Len(prs_pending_review)]
    /\ oldest_open_date' = OldestAfter(oldest_open_date, open_prs)
    /\ review_cycle_times' = CycleTimesAfter(review_cycle_times, prs_merged_today)
    /\ members' = MembersOf(prs_raised_today, prs_merged_today,
                            prs_with_changes_requested, prs_not_approved)
    /\ pr_ids_to_check' = PrIdsToCheck(prs_raised_today, prs_merged_today)
    /\ reviews_done_map' = <<>>
    /\ k' = 1
    /\ pc' = "reviews_done"
    /\ hist' = [hist EXCEPT ![repos[idx]].reviews = open_reviews]
    /\ UNCHANGED callVars
    /\ UNCHANGED <<idx, runVars, repoVars, classVars, member_rows, outVars>>

\* lines 165-169: one iteration of the loop over pr_ids_to_check
ReviewsDonePR ==
    /\ pc = "reviews_done"
    /\ k <= Len(pr_ids_to_check)
    /\ \E answer \in ReviewAnswers(pr_ids_to_check[k]) :
         LET g == get_reviews(answer) IN
         IF g.raised
         THEN /\ pc' = "raised"
              /\ UNCHANGED <<k, reviews_done_map>>
         ELSE /\ pc' = pc
              /\ k' = k + 1
              /\ reviews_done_map' = CountReviews(reviews_done_map, g.reviews)
    /\ UNCHANGED callVars
    /\ UNCHANGED <<idx, runVars, repoVars, classVars, accVars, members,
                   pr_ids_to_check, outVars, hist>>

\* lines 174-183: the rows of one repository
RowsOf(ms, repo_name) == [i \in DOMAIN ms |-> Row(ms[i], repo_name)]

\* lines 170-183, and the next repository; the locals of the iteration are
\* dead from here on and are cleared
AppendRows ==
    /\ pc = "reviews_done"
    /\ k > Len(pr_ids_to_check)
    /\ member_rows' = member_rows \o
                      RowsOf(ApplyReviewsDone(members, reviews_done_map), repos[idx])
    /\ pc' = AfterRepo
    /\ idx' = idx + 1
    /\ k' = 1
    /\ open_prs' = <<>> /\ closed_prs' = <<>>
    /\ prs_raised_today' = <<>> /\ prs_merged_today' = <<>>
    /\ prs_with_changes_requested' = <<>> /\ prs_not_approved' = <<>>
    /\ prs_hotfix' = <<>> /\ prs_pending_review' = <<>>
    /\ open_reviews' = <<>>
    /\ members' = <<>> /\ pr_ids_to_check' = <<>> /\ reviews_done_map' = <<>>
    /\ UNCHANGED callVars
    /\ UNCHANGED <<runVars, totals, oldest_open_date, review_cycle_times, outVars,
                   hist>>


\* lines 185-194: the loop over repos is over
AfterRepos ==
    /\ pc = "after_repos"
    /\ oldest_open_days' = IF oldest_open_date # NoneDt
                           THEN TdDays(DtSub(NowDt(now), oldest_open_date))
                           ELSE 0
    /\ stale_pr_owners' = {}
    /\ idx' = 1
    /\ pc' = "stale_owners"
    /\ UNCHANGED callVars
    /\ UNCHANGED <<k, runVars, repoVars, classVars, accVars, memberVars,
                   owners_stale_prs, most_active, review_heavy, hist>>

\* lines 202-205: the stale owners among one listing of open pull requests
StaleOwnersOf(n, opens) ==
    {opens[i].user : i \in {j \in DOMAIN opens : IsStale(n, opens[j])}}

\* lines 195-205: one iteration of the second loop over repos, which lists
\* the open pull requests again
StaleOwners ==
    /\ pc = "stale_owners"
    /\ idx <= Len(repos)
    /\ \E open_answer \in OpenAnswers :
         LET g == get_prs(open_answer) IN
         stale_pr_owners' = IF g.raised THEN stale_pr_owners
                            ELSE stale_pr_owners \cup StaleOwnersOf(now, g.prs)
    /\ idx' = idx + 1
    /\ UNCHANGED callVars
    /\ UNCHANGED <<pc, k, runVars, repoVars, classVars, accVars, memberVars,
                   oldest_open_days, owners_stale_prs, most_active, review_heavy,
                   hist>>

RECURSIVE SortedLogins(_)
\* sorted(logins)
SortedLogins(S) ==
    IF S = {} THEN <<>>
    ELSE LET m == CHOOSE x \in S : \A y \in S : LoginRank(x) <= LoginRank(y)
         IN  <<m>> \o SortedLogins(S \ {m})

\* ", ".join(sorted(stale_pr_owners)) if stale_pr_owners else "-", as the
\* sequence of the joined logins
OwnersStalePrs(S) == IF S # {} THEN SortedLogins(S) ELSE <<"-">>

RECURSIVE MaxByLast(_, _)
\* MaxBy keeping the last of the greatest elements
MaxByLast(rows, field) ==
    IF Len(rows) = 1 THEN rows[1]
    ELSE LET m == MaxByLast(SubSeq(rows, 1, Len(rows) - 1), field)
             l == rows[Len(rows)]
         IN  IF l[field] >= m[field] THEN l ELSE m

RECURSIVE MaxBy(_, _)
\* max(rows, key=lambda x: x[field]): the first of the greatest elements
MaxBy(rows, field) ==
    IF Len(rows) = 1 THEN rows[1]
    ELSE LET m == MaxBy(SubSeq(rows, 1, Len(rows) - 1), field)
             l == rows[Len(rows)]
         IN  IF l[field] > m[field] THEN l ELSE m

\* lines 206-248: the insights, and the report is printed
Report ==
    /\ pc = "stale_owners"
    /\ idx > Len(repos)
    /\ owners_stale_prs' = OwnersStalePrs(stale_pr_owners)
    /\ most_active' = IF member_rows # <<>>
                      THEN MaxBy(member_rows, "PRsRaised").Member ELSE "-"
    /\ review_heavy' = IF member_rows # <<>>
                       THEN MaxBy(member_rows, "ReviewsDone").Member ELSE "-"
    /\ pc' = "done"
    /\ UNCHANGED callVars
    /\ UNCHANGED <<idx, k, runVars, repoVars, classVars, accVars, memberVars,
                   oldest_open_days, stale_pr_owners, hist>>

Next ==
    \/ GetAllRepos
    \/ FetchPRs
    \/ ClassifyOpenPR
    \/ AfterClassify
    \/ ReviewsDonePR
    \/ AppendRows
    \/ AfterRepos
    \/ StaleOwners
    \/ Report

Spec == Init /\ [][Next]_vars

-----------------------------------------------------------------------------
(* One call of get_prs, followed request by request.                         *)

\* the longest run of non-empty pages a listing holds
MaxPages == 2

\* the run start of the call specifications
Now0 == CHOOSE n \in Nows : n.us = 0

NonEmptyPages == {Page(<<PR1, PR4>>), Page(<<PR3>>), Page(<<PR2, PR8>>)}

\* the runs of at most n non-empty pages
RECURSIVE PageRuns(_)
PageRuns(n) ==
    IF n = 0 THEN {<<>>}
    ELSE PageRuns(n - 1)
         \cup {Append(r, pg) : r \in {x \in PageRuns(n - 1) : Len(x) = n - 1},
                               pg \in NonEmptyPages}

\* what the source holds: non-empty pages, then an empty page, a 404 or
\* another error status
Listings == {Append(r, t) : r \in PageRuns(MaxPages), t \in {Page(<<>>), NotFound, Error}}

\* GetPrsStep with "prs = data" for "prs.extend(data)"
GetPrsStepAssign(src, pg, acc) ==
    LET r == src[pg] IN
    IF r.status = "notfound"
    THEN [to |-> "returned", page |-> pg, prs |-> acc, returned |-> <<>>]
    ELSE IF r.status = "error"
    THEN [to |-> "raised", page |-> pg, prs |-> acc, returned |-> <<>>]
    ELSE IF r.data = <<>>
    THEN [to |-> "returned", page |-> pg, prs |-> acc, returned |-> acc]
    ELSE [to |-> "get_prs", page |-> pg + 1, prs |-> r.data, returned |-> <<>>]

\* one iteration of the while loop of get_prs: the request for page pg and
\* what follows from the response
GetPrsStep(src, pg, acc) ==
    LET r == src[pg] IN
    IF r.status = "notfound"
    THEN [to |-> "returned", page |-> pg, prs |-> acc, returned |-> <<>>]
    ELSE IF r.status = "error"
    THEN [to |-> "raised", page |-> pg, prs |-> acc, returned |-> <<>>]
    ELSE IF r.data = <<>>
    THEN [to |-> "returned", page |-> pg, prs |-> acc, returned |-> acc]
    ELSE [to |-> "get_prs", page |-> pg + 1, prs |-> acc \o r.data, returned |-> <<>>]

\* prs = [], page = 1
GetPrsInit ==
    /\ pc = "get_prs"
    /\ now = Now0
    /\ today_start = TodayStart(now)
    /\ MainLocals
    /\ listing \in Listings
    /\ page = 1 /\ prs = <<>>
    /\ requests_made = <<>> /\ returned = <<>>
    /\ NoSend

GetPrsPage ==
    /\ pc = "get_prs"
    /\ LET st == GetPrsStep(listing, page, prs) IN
         /\ pc' = st.to
         /\ page' = st.page
         /\ prs' = st.prs
         /\ returned' = st.returned
    /\ requests_made' = Append(requests_made, page)
    /\ UNCHANGED <<listing, sendVars, mainVars>>

GetPrsNext == GetPrsPage

\* the loop is sequential code: its next iteration is always taken
SpecGetPrs == GetPrsInit /\ [][GetPrsNext]_vars /\ WF_vars(GetPrsPage)

-----------------------------------------------------------------------------
(* One call of send_to_google_chat_via_webhook.  A text is the sequence of   *)
(* its runs of equal characters.                                             *)

Run(ch, n) == [ch |-> ch, n |-> n]

\* len(text)
RECURSIVE TextLen(_)
TextLen(text) == IF text = <<>> THEN 0 ELSE Head(text).n + TextLen(Tail(text))

\* text[:m]
RECURSIVE Slice(_, _)
Slice(text, m) ==
    IF text = <<>> \/ m <= 0 THEN <<>>
    ELSE IF Head(text).n <= m THEN <<Head(text)>> \o Slice(Tail(text), m - Head(text).n)
    ELSE <<Run(Head(text).ch, m)>>

\* the Google Chat text limit
ChatLimit == 4000

ReportLens == {1, 3999, 4000, 4001}

\* the reports handed over: empty, and one or two runs around the limit
ReportTexts ==
    {<<>>} \cup {<<Run("#", a)>> : a \in ReportLens}
           \cup {<<Run("#", a), Run("-", b)>> : a, b \in ReportLens}

WebhookUrls == {"", "https://chat.googleapis.com/v1/spaces/AAAA/messages"}

\* requests.post: a response with a status code, or a network error raised
PostOutcomes ==
    {[raised |-> FALSE, status_code |-> 200],
     [raised |-> FALSE, status_code |-> 500],
     [raised |-> TRUE, status_code |-> 0]}

SendInit ==
    /\ pc = "send_to_google_chat_via_webhook"
    /\ now = Now0
    /\ today_start = TodayStart(now)
    /\ MainLocals
    /\ NoGetPrs
    /\ webhook_url \in WebhookUrls
    /\ report_text \in ReportTexts
    /\ payload = NoPayload /\ resp = NoResponse /\ printed = <<>>

\* lines 114-121: the webhook URL is read; without it the function prints and
\* returns, with it the payload is built
SendBuildPayload ==
    /\ pc = "send_to_google_chat_via_webhook"
    /\ IF webhook_url = ""
       THEN /\ printed' = Append(printed, "Missing webhook URL.")
            /\ pc' = "returned"
            /\ UNCHANGED payload
       ELSE /\ payload' = [built |-> TRUE, text |-> Slice(report_text, ChatLimit)]
            /\ pc' = "requests_post"
            /\ UNCHANGED printed
    /\ UNCHANGED <<webhook_url, report_text, resp, getPrsVars, mainVars>>

\* lines 123-127: requests.post, outside any try block, and the line printed
\* for its status
SendPost ==
    /\ pc = "requests_post"
    /\ \E outcome \in PostOutcomes :
         IF outcome.raised
         THEN /\ pc' = "raised"
              /\ UNCHANGED <<resp, printed>>
         ELSE /\ resp' = [status_code |-> outcome.status_code]
              /\ printed' = Append(printed,
                                   IF outcome.status_code # 200
                                   THEN "Failed to send message:"
                                   ELSE "Message sent to Google Chat.")
              /\ pc' = "returned"
    /\ UNCHANGED <<webhook_url, report_text, payload, getPrsVars, mainVars>>

SendNext == SendBuildPayload \/ SendPost

SpecSend == SendInit /\ [][SendNext]_vars


-----------------------------------------------------------------------------
(* What the history says about a repository.                                 *)

\* listing the open or the closed pull requests of r failed
ListingFailed(r) == hist[r].open.raised \/ hist[r].closed.raised

\* the repositories of the run whose two listings succeeded
Listed == {r \in Range(repos) : ~ListingFailed(r)}

\* how many elements of the sequence s satisfy Test
Count(s, Test(_)) == Cardinality({i \in DOMAIN s : Test(s[i])})

\* how many indices of the sequence s satisfy Test
CountIdx(s, Test(_)) == Cardinality({i \in DOMAIN s : Test(i)})

RECURSIVE SumOver(_, _)
\* the sum of F[r] over the repositories in S
SumOver(S, F) ==
    IF S = {} THEN 0
    ELSE LET r == CHOOSE x \in S : TRUE IN F[r] + SumOver(S \ {r}, F)

\* what the listed repository r adds to each total, counted from the history
Contribution(r) ==
    LET o == hist[r].open.prs
        c == hist[r].closed.prs
        rv == hist[r].reviews
    IN  [total_raised |-> Count(o, LAMBDA pr : IsRaisedToday(pr, today_start))
                          + Count(c, LAMBDA pr : IsRaisedToday(pr, today_start)),
         total_merged |-> Count(c, LAMBDA pr : IsMergedToday(pr, today_start)),
         total_changes_requested |-> CountIdx(o, LAMBDA i : HasChangesRequested(rv[i])),
         total_not_approved |-> CountIdx(o, LAMBDA i : IsNotApproved(rv[i])),
         total_hotfix |-> Count(o, LAMBDA pr : IsHotfix(pr)),
         total_pending_24h |-> CountIdx(o, LAMBDA i : IsPendingReview(now, o[i], rv[i])),
         pr_stuck |-> Count(o, LAMBDA pr : IsStuck(now, pr)),
         pending_release |-> Count(o, LAMBDA pr : IsPendingRelease(pr))]

TotalNames == DOMAIN ZeroTotals

\* the open pull requests of the listed repositories, as datetimes of creation
ListedOpenDates ==
    UNION {{iso_to_dt(hist[r].open.prs[i].created_at) : i \in DOMAIN hist[r].open.prs}
           : r \in Listed}

\* the sequence s as a bag
RECURSIVE BagOfSeq(_)
BagOfSeq(s) ==
    IF s = <<>> THEN EmptyBag ELSE SetToBag({Head(s)}) (+) BagOfSeq(Tail(s))

\* the review-cycle durations of the merged-today pull requests of r
CyclesOf(r) ==
    LET m == SelectSeq(hist[r].closed.prs, LAMBDA pr : IsMergedToday(pr, today_start))
    IN  [i \in DOMAIN m |-> iso_to_dt(m[i].merged_at).s - iso_to_dt(m[i].created_at).s]

RECURSIVE BagOver(_)
\* the durations of the repositories in S, pooled
BagOver(S) ==
    IF S = {} THEN EmptyBag
    ELSE LET r == CHOOSE x \in S : TRUE IN BagOfSeq(CyclesOf(r)) (+) BagOver(S \ {r})

\* the sum of a column of member_rows
RowSum(field) == SumSeq([i \in DOMAIN member_rows |-> member_rows[i][field]])

-----------------------------------------------------------------------------
\* C1: when the report is produced, the member rows sum to the global total in
\* each of the four counters raised, merged, changes-requested, not-approved.
C1_MemberSumsEqualTotals ==
    pc = "done" =>
        /\ RowSum("PRsRaised") = totals.total_raised
        /\ RowSum("PRsMerged") = totals.total_merged
        /\ RowSum("ChangesRequested") = totals.total_changes_requested
        /\ RowSum("NotApproved") = totals.total_not_approved

\* C1 witness: a report over two aggregated repositories, with a member who
\* raised two pull requests in one repository
C1_Witness ==
    /\ pc = "done"
    /\ Cardinality(Listed) >= 2
    /\ \E i \in DOMAIN member_rows : member_rows[i].PRsRaised >= 2
    /\ totals.total_merged >= 1
    /\ totals.total_changes_requested >= 1
    /\ totals.total_not_approved >= 1

\* C2: a repository whose open or closed listing failed adds nothing: no row
\* names it, and every total, the oldest open date and the pooled durations
\* are what the repositories that were listed contribute.
C2_FailedRepoContributesZero ==
    pc = "done" =>
        /\ \A i \in DOMAIN member_rows : ~ListingFailed(member_rows[i].RepoName)
        /\ \A f \in TotalNames :
              totals[f] = SumOver(Listed, [r \in Repos |-> Contribution(r)[f]])
        /\ IF ListedOpenDates = {} THEN oldest_open_date = NoneDt
           ELSE /\ oldest_open_date \in ListedOpenDates
                /\ \A d \in ListedOpenDates : DtGE(d, oldest_open_date)
        /\ BagOfSeq(review_cycle_times) = BagOver(Listed)

\* C2 witness: the open listing of a repository succeeded with pull requests,
\* its closed listing failed, and another repository was aggregated
C2_Witness ==
    /\ pc = "done"
    /\ \E r \in Range(repos) :
          /\ ~hist[r].open.raised /\ hist[r].open.prs # <<>>
          /\ hist[r].closed.raised
    /\ \E r \in Listed : hist[r].open.prs # <<>> /\ hist[r].closed.prs # <<>>
    /\ member_rows # <<>>

\* C3: once a non-empty repository list has been obtained, no gateway failure
\* makes main end with an exception.
C3_NoAbortAfterRepos == repos # <<>> => pc # "raised"


\* the lowered states of the last review of each reviewer, in source order
LatestStates(reviews) ==
    {Lower(reviews[i].state) :
        i \in {j \in DOMAIN reviews :
                  \A l \in DOMAIN reviews : l > j => reviews[l].user # reviews[j].user}}

\* C4: an open pull request counts as changes-requested exactly when the last
\* review of some reviewer has state changes_requested.
C4_ChangesRequestedByLatestReview ==
    pc = "classify" =>
        \A i \in DOMAIN open_reviews :
            /\ InSeq(open_prs[i], prs_with_changes_requested)
                  <=> "changes_requested" \in LatestStates(open_reviews[i])
            /\ is_changes_requested(open_reviews[i])
                  <=> "changes_requested" \in LatestStates(open_reviews[i])

\* C5: an open pull request counts as not-approved exactly when no reviewer's
\* last review has state approved.
C5_NotApprovedByLatestReview ==
    pc = "classify" =>
        \A i \in DOMAIN open_reviews :
            InSeq(open_prs[i], prs_not_approved)
                <=> "approved" \notin LatestStates(open_reviews[i])


\* seconds since the epoch of an ISO string
Epoch(iso) == iso_to_dt(iso).s

\* today_start is the UTC midnight of the day of now
IsMidnightOfNow ==
    /\ today_start.us = 0
    /\ today_start.s % 86400 = 0
    /\ today_start.s <= NowDt(now).s
    /\ NowDt(now).s < today_start.s + 86400

\* the raised-today list holds exactly the listed pull requests, open or
\* closed, created at or after today_start
RaisedTodayIsWindow ==
    pc \in {"classify", "reviews_done"} =>
        /\ \A pr \in Range(open_prs) \cup Range(closed_prs) :
              InSeq(pr, prs_raised_today) <=> Epoch(pr.created_at) >= today_start.s
        /\ Range(prs_raised_today) \subseteq Range(open_prs) \cup Range(closed_prs)

\* C6: raised-today is created_at >= today_start over the open and the closed
\* listing, and today_start is the UTC midnight of the run's start, the same
\* for every repository of the run.
C6_RaisedTodayWindow ==
    /\ [](IsMidnightOfNow /\ RaisedTodayIsWindow)
    /\ [][today_start' = today_start /\ now' = now]_vars

\* C6 witness: an open pull request created exactly at today_start is in the
\* set, a closed one created a second earlier is not, a closed one created
\* today is
C6_Witness ==
    /\ pc = "classify"
    /\ \E pr \in Range(open_prs) :
          iso_to_dt(pr.created_at) = today_start /\ InSeq(pr, prs_raised_today)
    /\ \E pr \in Range(closed_prs) :
          Epoch(pr.created_at) = today_start.s - 1 /\ ~InSeq(pr, prs_raised_today)
    /\ \E pr \in Range(closed_prs) : InSeq(pr, prs_raised_today)
    /\ idx = 2

\* a closed pull request that was merged at or after today_start
MergedInWindow(pr) == pr.merged_at # None /\ Epoch(pr.merged_at) >= today_start.s

\* the merged-in-window pull requests of the closed listing of r
MergedOf(r) == SelectSeq(hist[r].closed.prs, MergedInWindow)

RECURSIVE DurationsOver(_)
\* the bag of merged_at - created_at, in seconds, over the repositories in S
DurationsOver(S) ==
    IF S = {} THEN EmptyBag
    ELSE LET r == CHOOSE x \in S : TRUE
             m == MergedOf(r)
         IN  BagOfSeq([i \in DOMAIN m |-> Epoch(m[i].merged_at) - Epoch(m[i].created_at)])
             (+) DurationsOver(S \ {r})

\* C7: merged-today is the closed pull requests with merged_at present and
\* >= today_start; only they count in total_merged and in the members' merged
\* counters, and each adds one duration merged_at - created_at.
C7_MergedTodayWindow ==
    /\ pc \in {"classify", "reviews_done"} =>
          /\ \A pr \in Range(closed_prs) :
                InSeq(pr, prs_merged_today) <=> MergedInWindow(pr)
          /\ Range(prs_merged_today) \subseteq Range(closed_prs)
          /\ Len(prs_merged_today) = Count(closed_prs, MergedInWindow)
    /\ pc = "reviews_done" =>
          \A u \in Logins :
              LET mine == {i \in DOMAIN members : members[i].Member = u}
                  n == Count(closed_prs, LAMBDA pr : MergedInWindow(pr) /\ pr.user = u)
              IN  IF mine = {} THEN n = 0
                  ELSE \A i \in mine : members[i].merged = n
    /\ pc = "done" =>
          /\ totals.total_merged = SumOver(Listed, [r \in Repos |-> Len(MergedOf(r))])
          /\ RowSum("PRsMerged") = SumOver(Listed, [r \in Repos |-> Len(MergedOf(r))])
          /\ BagOfSeq(review_cycle_times) = DurationsOver(Listed)

\* C7 witness: a closed listing with a pull request merged exactly at
\* today_start and a closed, unmerged one, another with a pull request merged
\* before today_start
C7_Witness ==
    /\ pc = "done"
    /\ \E r \in Listed :
          /\ \E pr \in Range(hist[r].closed.prs) :
                pr.merged_at # None /\ iso_to_dt(pr.merged_at) = today_start
          /\ \E pr \in Range(hist[r].closed.prs) : pr.merged_at = None
    /\ \E r \in Listed : \E pr \in Range(hist[r].closed.prs) :
          pr.merged_at # None /\ Epoch(pr.merged_at) < today_start.s
    /\ Len(review_cycle_times) >= 2

\* what the run got for each repository: whether a listing failed, what the
\* repository adds to the totals, its open and its merged-today pull requests
Aggregates ==
    [r \in Repos |->
        [failed |-> ListingFailed(r),
         totals |-> IF ListingFailed(r) THEN ZeroTotals ELSE Contribution(r),
         open_prs |-> hist[r].open.prs,
         merged |-> MergedToday(hist[r].closed.prs, today_start)]]

\* the accumulators after a repository with aggregate agg, from the
\* accumulators before it
AggregateRepo(acc, agg) ==
    IF agg.failed THEN acc
    ELSE [totals |-> [f \in TotalNames |-> acc.totals[f] + agg.totals[f]],
          oldest |-> OldestAfter(acc.oldest, agg.open_prs),
          cycles |-> CycleTimesAfter(acc.cycles, agg.merged)]

RECURSIVE RunInOrder(_, _)
\* the accumulators after the repositories of order, processed first to last
RunInOrder(order, aggs) ==
    IF order = <<>>
    THEN [totals |-> ZeroTotals, oldest |-> NoneDt, cycles |-> <<>>]
    ELSE AggregateRepo(RunInOrder(SubSeq(order, 1, Len(order) - 1), aggs),
                       aggs[order[Len(order)]])

RECURSIVE RunOldestPerPR(_, _)
\* the oldest open date of send_pr_report.py after the repositories of order
RunOldestPerPR(order, aggs) ==
    IF order = <<>> THEN NoneDt
    ELSE LET before == RunOldestPerPR(SubSeq(order, 1, Len(order) - 1), aggs)
             agg == aggs[order[Len(order)]]
         IN  IF agg.failed THEN before ELSE OldestPerPR(before, agg.open_prs)

\* C8: when the loop over the repositories ends, the totals, the oldest open
\* date and the bag of pooled durations are those of processing the same
\* repositories in any other order.
C8_OrderIndependent ==
    pc = "after_repos" =>
        LET aggs == Aggregates
            mine == BagOfSeq(review_cycle_times)
        IN  \A order \in Perms(Range(repos)) :
                LET acc == RunInOrder(order, aggs) IN
                /\ acc.totals = totals
                /\ acc.oldest = oldest_open_date
                /\ RunOldestPerPR(order, aggs) = oldest_open_date
                /\ BagOfSeq(acc.cycles) = mine

\* C8 witness: two aggregated repositories with open and merged pull
\* requests, the one processed first holding the older open pull request
C8_Witness ==
    /\ pc = "after_repos"
    /\ \E i, j \in DOMAIN repos :
          /\ i < j
          /\ {repos[i], repos[j]} \subseteq Listed
          /\ hist[repos[i]].open.prs # <<>> /\ hist[repos[j]].open.prs # <<>>
          /\ IsoLT(MinByCreated(hist[repos[i]].open.prs).created_at,
                   MinByCreated(hist[repos[j]].open.prs).created_at)
          /\ MergedOf(repos[i]) # <<>> /\ MergedOf(repos[j]) # <<>>

\* the count reviews_done_map holds for a login
ReviewsDoneOf(u) ==
    SumSeq([i \in DOMAIN reviews_done_map |->
              IF reviews_done_map[i].user = u THEN reviews_done_map[i].count ELSE 0])

RECURSIVE ReviewsBy(_, _)
\* the number of reviews by u on the pull requests numbered in S
ReviewsBy(u, S) ==
    IF S = {} THEN 0
    ELSE LET n == CHOOSE x \in S : TRUE IN
         Count(ReviewsOf(n), LAMBDA r : r.user = u) + ReviewsBy(u, S \ {n})

\* C9: reviews_done of a member is the number of that member's reviews on the
\* pull requests raised or merged today, each pull request taken once.
C9_ReviewsDoneOncePerPR ==
    (pc = "reviews_done" /\ k > Len(pr_ids_to_check)) =>
        \A u \in Logins : ReviewsDoneOf(u) = ReviewsBy(u, Range(pr_ids_to_check))

\* C10: the reported stale owners are the sorted authors of the stale open
\* pull requests of the repositories that were aggregated, or "-".
C10_StaleOwnersOfAggregated ==
    pc = "done" =>
        owners_stale_prs =
            OwnersStalePrs(UNION {StaleOwnersOf(now, hist[r].open.prs) : r \in Listed})

-----------------------------------------------------------------------------
\* the creation instants, in epoch seconds, of the open pull requests of the
\* listed repositories whose classification loop has completed
ClassifiedOpenEpochs ==
    UNION {{Epoch(hist[r].open.prs[i].created_at) : i \in DOMAIN hist[r].open.prs}
           : r \in {x \in Listed : Len(hist[x].reviews) = Len(hist[x].open.prs)}}

\* the least element of a non-empty set of integers
MinOf(S) == CHOOSE x \in S : \A y \in S : x <= y

(* C11: oldest_open_days is the whole number of days (rounded down) between  *)
(* the single now of the run and the earliest created_at over every open     *)
(* pull request of the repositories that were not skipped, and 0 when there  *)
(* is none; the per-repository minimum taken by comparing the created_at     *)
(* strings is the chronologically earliest open pull request of that         *)
(* repository, and the date kept across repositories is the earliest so far. *)
C11_OldestOpenDays ==
    /\ pc = "classify" /\ open_prs # <<>> =>
          \A i \in DOMAIN open_prs :
              Epoch(MinByCreated(open_prs).created_at) <= Epoch(open_prs[i].created_at)
    /\ pc # "raised" =>
          oldest_open_date = IF ClassifiedOpenEpochs = {} THEN NoneDt
                             ELSE [s |-> MinOf(ClassifiedOpenEpochs), us |-> 0]
    /\ pc \in {"stale_owners", "done"} =>
          oldest_open_days =
              IF ListedOpenDates = {} THEN 0
              ELSE (NowDt(now).s - MinOf({d.s : d \in ListedOpenDates})) \div 86400

\* two listed repositories, the second holding the earliest open pull request,
\* which is 8 days and 23 hours old
C11_Witness ==
    /\ pc = "done"
    /\ Len(repos) = 2
    /\ Cardinality(Listed) = 2
    /\ oldest_open_days = 8
    /\ hist[repos[1]].open.prs # <<>>
    /\ \A i \in DOMAIN hist[repos[1]].open.prs :
          Epoch(hist[repos[1]].open.prs[i].created_at) > oldest_open_date.s

-----------------------------------------------------------------------------
\* the index of the first row whose field equals the greatest value of field
FirstMaxIndex(rows, field) ==
    CHOOSE i \in DOMAIN rows :
        /\ \A j \in DOMAIN rows : rows[j][field] <= rows[i][field]
        /\ \A j \in 1..(i - 1) : rows[j][field] < rows[i][field]

\* the position of repository r in repos
RepoIndex(r) == CHOOSE i \in DOMAIN repos : repos[i] = r

RECURSIVE FirstOccurrences(_)
\* the elements of s in the order of their first occurrence
FirstOccurrences(s) ==
    IF s = <<>> THEN <<>>
    ELSE LET f == FirstOccurrences(SubSeq(s, 1, Len(s) - 1))
             l == s[Len(s)]
         IN  IF InSeq(l, f) THEN f ELSE Append(f, l)

\* the authors of a list of pull requests
AuthorsOf(pulls) == [i \in DOMAIN pulls |-> pulls[i].user]

(* C12: at the report, most_active_contributor is the Member of the first    *)
(* row of member_rows whose PRs Raised equals the greatest PRs Raised, and   *)
(* review_heavy the Member of the first row whose Reviews Done equals the    *)
(* greatest Reviews Done; both are "-" when there is no row.  The rows stand *)
(* in repository order, and within a repository the members stand in the    *)
(* order in which the four pull-request lists first name them.               *)
C12_FirstRowWithMaximum ==
    /\ \A i, j \in DOMAIN member_rows :
          i < j => RepoIndex(member_rows[i].RepoName) <= RepoIndex(member_rows[j].RepoName)
    /\ pc = "reviews_done" =>
          [i \in DOMAIN members |-> members[i].Member] =
              FirstOccurrences(AuthorsOf(prs_raised_today \o prs_merged_today
                                         \o prs_with_changes_requested
                                         \o prs_not_approved))
    /\ pc = "done" =>
          IF member_rows = <<>>
          THEN most_active = "-" /\ review_heavy = "-"
          ELSE /\ most_active =
                    member_rows[FirstMaxIndex(member_rows, "PRsRaised")].Member
               /\ review_heavy =
                    member_rows[FirstMaxIndex(member_rows, "ReviewsDone")].Member

\* two rows of different members tie on the greatest PRs Raised, and the
\* greatest Reviews Done is found in a later row of another member
C12_Witness ==
    /\ pc = "done"
    /\ \E i, j \in DOMAIN member_rows :
          /\ i < j
          /\ member_rows[i].Member # member_rows[j].Member
          /\ member_rows[i].PRsRaised = member_rows[j].PRsRaised
          /\ member_rows[i].PRsRaised > 0
          /\ \A l \in DOMAIN member_rows :
                member_rows[l].PRsRaised <= member_rows[i].PRsRaised
    /\ review_heavy # most_active
    /\ FirstMaxIndex(member_rows, "ReviewsDone") > 1

-----------------------------------------------------------------------------
\* more than 24 hours lie between created_at and the now of the run
OlderThan24h(pr) ==
    LET elapsed == NowDt(now).s - Epoch(pr.created_at) IN
    elapsed > 86400 \/ (elapsed = 86400 /\ now.us > 0)

(* C14: an open pull request with no review at all is counted as             *)
(* not-approved and not as changes-requested, and is pending-24h exactly     *)
(* when now - created_at is strictly more than 24 hours; an open pull        *)
(* request with any review is never pending-24h; so total_pending_24h never  *)
(* exceeds total_not_approved.                                               *)
C14_ZeroReviewsPending ==
    /\ pc = "classify" =>
          \A i \in DOMAIN open_reviews :
              IF Len(open_reviews[i]) = 0
              THEN /\ InSeq(open_prs[i], prs_not_approved)
                   /\ ~InSeq(open_prs[i], prs_with_changes_requested)
                   /\ InSeq(open_prs[i], prs_pending_review) <=> OlderThan24h(open_prs[i])
              ELSE ~InSeq(open_prs[i], prs_pending_review)
    /\ Len(prs_pending_review) <= Len(prs_not_approved)
    /\ totals.total_pending_24h <= totals.total_not_approved

\* the second repository's loop is over: one pull request without reviews is
\* pending, one is 9 hours old and is not; the first repository held reviewed
\* pull requests older than 24 hours and counted none as pending
C14_Witness ==
    /\ pc = "classify"
    /\ idx = 2
    /\ k > Len(open_prs)
    /\ totals.total_pending_24h = 0
    /\ \E i \in DOMAIN hist[repos[1]].reviews :
          /\ Len(hist[repos[1]].reviews[i]) > 0
          /\ OlderThan24h(hist[repos[1]].open.prs[i])
    /\ \E i, j \in DOMAIN open_prs :
          /\ Len(open_reviews[i]) = 0 /\ InSeq(open_prs[i], prs_pending_review)
          /\ Len(open_reviews[j]) = 0 /\ ~InSeq(open_prs[j], prs_pending_review)

-----------------------------------------------------------------------------
\* the pull-request numbers of a list
NumbersOf(pulls) == {pulls[i].number : i \in DOMAIN pulls}

(* C16: no pull request is counted more than once in total_raised or in its  *)
(* author's raised counter: the raised-today list of a repository names each *)
(* pull-request number once, although the open and the closed listing are    *)
(* separate fetches between which a pull request may be closed.              *)
C16_RaisedCountedOnce ==
    /\ Len(prs_raised_today) = Cardinality(NumbersOf(prs_raised_today))
    /\ pc = "reviews_done" =>
          \A i \in DOMAIN members :
              members[i].raised =
                  Cardinality({n \in NumbersOf(prs_raised_today) :
                                 \E j \in DOMAIN prs_raised_today :
                                     /\ prs_raised_today[j].number = n
                                     /\ prs_raised_today[j].user = members[i].Member})
    /\ pc = "done" /\ Len(repos) = 1 /\ Listed = Range(repos) =>
          totals.total_raised =
              Cardinality({n \in NumbersOf(hist[repos[1]].open.prs \o hist[repos[1]].closed.prs) :
                             \E pr \in Range(hist[repos[1]].open.prs \o hist[repos[1]].closed.prs) :
                                 pr.number = n /\ IsRaisedToday(pr, today_start)})

-----------------------------------------------------------------------------
\* the character at position i of a text
RECURSIVE CharAt(_, _)
CharAt(text, i) ==
    IF i <= Head(text).n THEN Head(text).ch ELSE CharAt(Tail(text), i - Head(text).n)

-----------------------------------------------------------------------------
RECURSIVE ConcatPages(_, _)
\* the records of pages 1 to n of a listing, in page order
ConcatPages(src, n) ==
    IF n = 0 THEN <<>> ELSE ConcatPages(src, n - 1) \o src[n].data

\* the state of a call of get_prs after n requests
GetPrsInOrder ==
    LET n == Len(requests_made) IN
    /\ requests_made = [i \in 1..n |-> i]
    /\ \A i \in 1..(n - 1) : listing[i].status = "ok" /\ listing[i].data # <<>>
    /\ pc = "get_prs" =>
          /\ page = n + 1
          /\ prs = ConcatPages(listing, n)
          /\ n > 0 => listing[n].status = "ok" /\ listing[n].data # <<>>
    /\ pc = "returned" =>
          /\ listing[n].status \in {"ok", "notfound"}
          /\ listing[n].data = <<>>
          /\ returned = IF listing[n].status = "ok"
                        THEN ConcatPages(listing, n - 1) ELSE <<>>
          /\ get_prs(listing) = [raised |-> FALSE, prs |-> returned]
    /\ pc = "raised" => listing[n].status = "error" /\ get_prs(listing).raised

(* C15: get_prs requests pages 1, 2, 3, ... in order and stops at the first  *)
(* empty page, then returning the records of every non-empty page before it, *)
(* in page order, none dropped or repeated; a 404 makes it return nothing    *)
(* and another error status makes it raise; the call ends whenever the       *)
(* source holds an empty page, a 404 or an error after finitely many pages.  *)
C15_GetPrsPagesInOrder ==
    /\ [](pc \in {"get_prs", "returned", "raised"} => GetPrsInOrder)
    /\ <>(pc \in {"returned", "raised"})

\* two different non-empty pages were received before the empty one
C15_Witness ==
    /\ pc = "returned"
    /\ requests_made = <<1, 2, 3>>
    /\ listing[1] # listing[2]
    /\ listing[3] = Page(<<>>)
    /\ returned = listing[1].data \o listing[2].data

=============================================================================
